---- MODULE Spec2Model ----
(***************************************************************************)
(* Model of mailchimp3/entities/batches.py: the Batches endpoint client.   *)
(* One caller drives one Batches object; the remote service and the HTTP   *)
(* transport are the environment, which answers every transport call with  *)
(* either a decoded response or a transport error.                         *)
(***************************************************************************)
EXTENDS Integers, Sequences, FiniteSets, TLC

\* ------------------------------------------------------------------ bounds
MaxOps == 2
MaxRetries == 2
MaxIds == 3
MaxManyRetries == 1
MaxConcRetries == 2

\* --------------------------------------------------------------- constants
DefaultRetries == 20
sleep_secs == 3

None == "None"
Ids == {"A", "B"}

SeqsUpTo(S, n) == UNION {[1..k -> S] : k \in 0..n}

\* ------------------------------------------------------------- exceptions
NoError == [type |-> "none"]
KeyError(text) == [type |-> "KeyError", msg |-> <<text>>]
ValueError(tokens) == [type |-> "ValueError", msg |-> tokens]
Exception(tokens) == [type |-> "Exception", msg |-> tokens]
UnboundLocalError == [type |-> "UnboundLocalError", msg |-> <<"local variable 'batch' referenced before assignment">>]

\* str(e) of an exception built from one message argument
StrOfException(e) == e.msg

\* '{0}'.format(n) / f'{n}' for the small non-negative integers of the model
Digits == <<"0", "1", "2", "3", "4", "5", "6", "7", "8", "9">>
FormatInt(n) == IF n < 10 THEN Digits[n + 1] ELSE Digits[(n \div 10) + 1] \o Digits[(n % 10) + 1]

\* sep.join(parts), each part and the result being a sequence of text tokens
RECURSIVE Join(_, _)
Join(sep, parts) ==
    IF Len(parts) = 0 THEN <<>>
    ELSE IF Len(parts) = 1 THEN parts[1]
    ELSE parts[1] \o <<sep>> \o Join(sep, Tail(parts))

\* ------------------------------------------------------------- the inputs
AllowedMethods == <<"GET", "POST", "PUT", "PATCH", "DELETE">>
InputMethods == {"GET", "POST", "PUT", "PATCH", "DELETE", "HEAD", "get"}
Paths == {"/lists"}
EmptyDict == [k \in {} |-> ""]

\* an operation is a dict whose keys 'method' and 'path' may each be absent
OperationValues ==
    {[method |-> m, path |-> p] : m \in InputMethods, p \in Paths}
    \cup {[method |-> m] : m \in InputMethods}
    \cup {[path |-> p] : p \in Paths}
    \cup {EmptyDict}
OperationLists == SeqsUpTo(OperationValues, MaxOps)
Requests == {[operations |-> ops] : ops \in OperationLists} \cup {[name |-> "nightly"]}

\* ---------------------------------------------------------- the transport
TransportErrors ==
    {[type |-> "MailChimpError", msg |-> <<"status 500">>],
     [type |-> "MailChimpError", msg |-> <<"connection failed">>]}

\* the bodies the service can answer a status GET with (id and response
\* ordinal are added per call)
Bodies ==
    { [status |-> "pending",  total_operations |-> 2, errored_operations |-> 0, response_body_url |-> ""],
      [status |-> "started",  total_operations |-> 2, errored_operations |-> 1, response_body_url |-> ""],
      [status |-> "finished", total_operations |-> 2, errored_operations |-> 0, response_body_url |-> "u1"],
      [status |-> "finished", total_operations |-> 2, errored_operations |-> 1, response_body_url |-> "u1"],
      [status |-> "finished", total_operations |-> 3, errored_operations |-> 2, response_body_url |-> "u2"] }

\* a decoded job record: the body, the job id, and seq, the ordinal of the
\* transport call of the current wait (or 0) whose response object this is
Snapshot(b, id, seq) ==
    [id |-> id, status |-> b.status, total_operations |-> b.total_operations,
     errored_operations |-> b.errored_operations,
     response_body_url |-> b.response_body_url, seq |-> seq]

Ok(body) == [ok |-> TRUE, body |-> body]
Failed(e) == [ok |-> FALSE, exc |-> e]

\* outcomes of _mc_client._get(url=_build_path(batch_id))
GetOutcomes(id, seq) ==
    {Ok(Snapshot(b, id, seq)) : b \in Bodies} \cup {Failed(e) : e \in TransportErrors}

\* outcomes of _mc_client._post(url=_build_path(), data=data)
PostOutcomes ==
    {Ok(Snapshot([status |-> "pending", total_operations |-> 2, errored_operations |-> 0,
                  response_body_url |-> ""], id, 0)) : id \in Ids}
    \cup {Failed(e) : e \in TransportErrors}

\* outcomes of _mc_client._delete(url=_build_path(batch_id)) and of the list GET
AckOutcomes == {Ok(None)} \cup {Failed(e) : e \in TransportErrors}

\* entries of the event log
Call(kind, id, pos) == [kind |-> kind, id |-> id, secs |-> 0, pos |-> pos]
Sleep(secs, pos) == [kind |-> "SLEEP", id |-> "", secs |-> secs, pos |-> pos]

\* ------------------------------------------------------------------ state
VARIABLES
    batch_id,           \* self.batch_id
    operation_status,   \* self.operation_status
    pc,                 \* where the caller is: idle, wait_for_complete, wait_for_many, done
    op,                 \* the public method the caller invoked
    arg,                \* the data or batch_id argument the method was called with
    result,             \* how that method ended: returned value or raised exception
    log,                \* transport calls and sleeps made during the current invocation
    posted,             \* the request bodies handed to POST during the current invocation
    wfc,                \* frame of wait_for_complete: batch_id, retries, loop counter
    batch,              \* local variable batch of wait_for_complete
    wfm,                \* frame of wait_for_many: batch_ids, retries, loop position
    failed_batches,     \* local variable failed_batches of wait_for_many
    outcomes,           \* how each wait of wait_for_many ended, in order
    created,            \* the responses of POST during the current invocation
    threads             \* the wait_for_complete calls that run concurrently on the object

vars == <<batch_id, operation_status, pc, op, arg, result, log, posted, wfc, batch, wfm,
          failed_batches, outcomes, created, threads>>

Unbound == [bound |-> FALSE]
NoResult == [kind |-> "none"]
Returned(v) == [kind |-> "return", value |-> v]
Raised(e) == [kind |-> "raise", exc |-> e]

\* the frame of wait_for_complete: its arguments and loop counter i, and a
\* record of what the service has answered during this wait: nfetch GETs
\* issued, the first snapshot with status finished (seq 0: none yet), the
\* ordinal and error of the GET that failed (0: none)
NoSnapshot == [seq |-> 0]
Frame(id, retries) ==
    [batch_id |-> id, retries |-> retries, i |-> 0, nfetch |-> 0,
     first_finished |-> NoSnapshot, failed_fetch |-> 0, fetch_error |-> NoError]
NoWfc == Frame(None, 0)
NoWfm == [batch_ids |-> <<>>, retries |-> 0, idx |-> 0]

Init ==
    /\ batch_id = None
    /\ operation_status = None
    /\ pc = "idle"
    /\ op = "none"
    /\ arg = None
    /\ result = NoResult
    /\ log = <<>>
    /\ posted = <<>>
    /\ wfc = NoWfc
    /\ batch = Unbound
    /\ wfm = NoWfm
    /\ failed_batches = <<>>
    /\ outcomes = <<>>
    /\ created = <<>>
    /\ threads = <<>>

\* ----------------------------------------------------------------- create
InList(x, list) == \E j \in 1..Len(list) : list[j] = x

\* a loop that tests for the path before it looks at the method
RECURSIVE CheckOperationsPathFirst(_, _)
CheckOperationsPathFirst(ops, i) ==
    IF i > Len(ops) THEN NoError
    ELSE LET o == ops[i] IN
         IF "path" \notin DOMAIN o
         THEN KeyError("The batch operation must have a path")
         ELSE IF "method" \notin DOMAIN o
         THEN KeyError("The batch operation must have a method")
         ELSE IF ~InList(o.method, AllowedMethods)
         THEN ValueError(<<"The batch operation method must be one of \"GET\", \"POST\", \"PUT\", \"PATCH\", or \"DELETE\", not ", o.method>>)
         ELSE CheckOperationsPathFirst(ops, i + 1)

RECURSIVE CheckOperations(_, _)
CheckOperations(ops, i) ==
    IF i > Len(ops) THEN NoError
    ELSE LET o == ops[i] IN
         IF "method" \notin DOMAIN o
         THEN KeyError("The batch operation must have a method")
         ELSE IF ~InList(o.method, AllowedMethods)
         THEN ValueError(<<"The batch operation method must be one of \"GET\", \"POST\", \"PUT\", \"PATCH\", or \"DELETE\", not ", o.method>>)
         ELSE IF "path" \notin DOMAIN o
         THEN KeyError("The batch operation must have a path")
         ELSE CheckOperations(ops, i + 1)

\* a validation that looks at the first operation only
ValidateFirstOnly(data) ==
    IF "operations" \notin DOMAIN data
    THEN KeyError("The batch must have operations")
    ELSE IF Len(data.operations) = 0 THEN NoError
    ELSE CheckOperations(<<data.operations[1]>>, 1)

Validate(data) ==
    IF "operations" \notin DOMAIN data
    THEN KeyError("The batch must have operations")
    ELSE CheckOperations(data.operations, 1)

\* the frame of a fresh wait_for_complete(id, retries) call
EnterWait(id, retries) ==
    /\ wfc' = Frame(id, retries)
    /\ batch' = Unbound
    /\ pc' = "wait_for_complete"

create ==
    /\ pc = "idle"
    /\ \E data \in Requests :
        LET err == Validate(data) IN
        /\ op' = "create"
        /\ arg' = data
        /\ pc' = "done"
        /\ IF err # NoError
           THEN /\ result' = Raised(err)
                /\ log' = <<>>
                /\ posted' = <<>>
                /\ created' = <<>>
           ELSE \E r \in PostOutcomes :
                /\ log' = <<Call("POST", "", 0)>>
                /\ posted' = <<data>>
                /\ created' = IF r.ok THEN <<r.body>> ELSE <<>>
                /\ result' = IF r.ok THEN Returned(r.body) ELSE Raised(r.exc)
    /\ wfc' = NoWfc
    /\ batch' = Unbound
    /\ wfm' = NoWfm
    /\ failed_batches' = <<>>
    /\ outcomes' = <<>>
    /\ UNCHANGED <<batch_id, operation_status>>
    /\ UNCHANGED threads

\* ------------------------------------------------------- all, get, delete
\* a listing that leaves the tracking fields as they are
allKeepingFields ==
    /\ pc = "idle"
    /\ UNCHANGED <<batch_id, operation_status>>
    /\ \E r \in AckOutcomes :
        result' = IF r.ok THEN Returned(r.body) ELSE Raised(r.exc)
    /\ log' = <<Call("GET", "", 0)>>
    /\ op' = "all"
    /\ arg' = None
    /\ pc' = "done"
    /\ posted' = <<>>
    /\ created' = <<>>
    /\ wfc' = NoWfc
    /\ batch' = Unbound
    /\ wfm' = NoWfm
    /\ failed_batches' = <<>>
    /\ outcomes' = <<>>
    /\ UNCHANGED threads

all ==
    /\ pc = "idle"
    /\ batch_id' = None
    /\ operation_status' = None
    /\ \E r \in AckOutcomes :
        result' = IF r.ok THEN Returned(r.body) ELSE Raised(r.exc)
    /\ log' = <<Call("GET", "", 0)>>
    /\ op' = "all"
    /\ arg' = None
    /\ pc' = "done"
    /\ posted' = <<>>
    /\ created' = <<>>
    /\ wfc' = NoWfc
    /\ batch' = Unbound
    /\ wfm' = NoWfm
    /\ failed_batches' = <<>>
    /\ outcomes' = <<>>
    /\ UNCHANGED threads

\* a get that was pasted from delete and still calls _delete
getByDelete ==
    /\ pc = "idle"
    /\ \E id \in Ids :
        /\ arg' = id
        /\ batch_id' = id
        /\ operation_status' = None
        /\ log' = <<Call("DELETE", id, 0)>>
        /\ \E r \in AckOutcomes :
            result' = IF r.ok THEN Returned(r.body) ELSE Raised(r.exc)
    /\ op' = "get"
    /\ pc' = "done"
    /\ posted' = <<>>
    /\ created' = <<>>
    /\ wfc' = NoWfc
    /\ batch' = Unbound
    /\ wfm' = NoWfm
    /\ failed_batches' = <<>>
    /\ outcomes' = <<>>
    /\ UNCHANGED threads

get ==
    /\ pc = "idle"
    /\ \E id \in Ids :
        /\ arg' = id
        /\ batch_id' = id
        /\ operation_status' = None
        /\ log' = <<Call("GET", id, 0)>>
        /\ \E r \in GetOutcomes(id, 1) :
            result' = IF r.ok THEN Returned(r.body) ELSE Raised(r.exc)
    /\ op' = "get"
    /\ pc' = "done"
    /\ posted' = <<>>
    /\ created' = <<>>
    /\ wfc' = NoWfc
    /\ batch' = Unbound
    /\ wfm' = NoWfm
    /\ failed_batches' = <<>>
    /\ outcomes' = <<>>
    /\ UNCHANGED threads

delete ==
    /\ pc = "idle"
    /\ \E id \in Ids :
        /\ arg' = id
        /\ batch_id' = id
        /\ operation_status' = None
        /\ log' = <<Call("DELETE", id, 0)>>
    /\ \E r \in AckOutcomes :
        result' = IF r.ok THEN Returned(r.body) ELSE Raised(r.exc)
    /\ op' = "delete"
    /\ pc' = "done"
    /\ posted' = <<>>
    /\ created' = <<>>
    /\ wfc' = NoWfc
    /\ batch' = Unbound
    /\ wfm' = NoWfm
    /\ failed_batches' = <<>>
    /\ outcomes' = <<>>
    /\ UNCHANGED threads

\* ------------------------------------------------------ wait_for_complete
\* position in batch_ids of the wait that is running (0 outside wait_for_many)
Pos == IF op = "wait_for_many" THEN wfm.idx ELSE 0

\* the message with the two counts in each other's place
JobFailedSwapped(b, id) ==
    Exception(<<FormatInt(b.total_operations), "/", FormatInt(b.errored_operations),
                " operations failed for batch_id = ", id, ", details here ",
                b.response_body_url>>)

JobFailed(b, id) ==
    Exception(<<FormatInt(b.errored_operations), "/", FormatInt(b.total_operations),
                " operations failed for batch_id = ", id, ", details here ",
                b.response_body_url>>)

\* except Exception: the exception classes the handler of wait_for_many catches
ExceptionClasses == {"Exception", "MailChimpError", "UnboundLocalError", "KeyError", "ValueError"}
\* a handler that catches the job failures of wait_for_complete only
CaughtJobFailuresOnly(e) == e.type = "Exception"
\* a handler that catches transport errors only
CaughtTransportOnly(e) == e.type = "MailChimpError"
Caught(e) == e.type \in ExceptionClasses

\* what the service did to the job of a finished wait with frame w
JobClass(w) ==
    IF w.failed_fetch > 0 THEN "transport_failed"
    ELSE IF w.first_finished.seq = 0 THEN "not_finished"
    ELSE IF w.first_finished.errored_operations > 0 THEN "finished_errors"
    ELSE "finished_ok"

\* wait_for_complete, its frame being w, ends with outcome o, which goes to
\* its caller: the try/except of wait_for_many, or the caller of the public
\* method
Unwind(o, w) ==
    IF op = "wait_for_many" /\ (o.kind = "return" \/ Caught(o.exc))
    THEN /\ failed_batches' = IF o.kind = "raise"
                              THEN Append(failed_batches, StrOfException(o.exc))
                              ELSE failed_batches
         /\ outcomes' = Append(outcomes,
                [kind |-> o.kind, exc |-> IF o.kind = "raise" THEN o.exc ELSE NoError,
                 job |-> JobClass(w)])
         /\ wfm' = [wfm EXCEPT !.idx = @ + 1]
         /\ pc' = "wait_for_many"
         /\ UNCHANGED result
    ELSE /\ result' = o
         /\ pc' = "done"
         /\ UNCHANGED <<wfm, failed_batches, outcomes>>

\* a loop that is one iteration short
LoopStopsEarly(i, retries) == i < retries - 1

\* for _ in range(retries), i iterations being done
LoopContinues(i, retries) == i < retries

IsFinished(b) == b.status = "finished"
\* a test that takes zero errored operations for a failure
HasErrorsOrNone(b) == b.errored_operations >= 0
HasErrors(b) == b.errored_operations > 0

\* a wait that treats a spent budget as a failure
ExhaustedRaises(b) == Raised(Exception(<<"batch did not finish">>))

\* return batch, after the loop
ExhaustedOutcome(b) == IF b = Unbound THEN Raised(UnboundLocalError) ELSE Returned(b)

wait_for_complete ==
    /\ pc = "idle"
    /\ \E id \in Ids, retries \in 0..MaxRetries : EnterWait(id, retries)
    /\ op' = "wait_for_complete"
    /\ arg' = None
    /\ result' = NoResult
    /\ log' = <<>>
    /\ posted' = <<>>
    /\ created' = <<>>
    /\ wfm' = NoWfm
    /\ failed_batches' = <<>>
    /\ outcomes' = <<>>
    /\ UNCHANGED <<batch_id, operation_status>>
    /\ UNCHANGED threads

\* an iteration that swallows a transport error of get and polls again
WaitIterateRetrying ==
    /\ pc = "wait_for_complete"
    /\ LoopContinues(wfc.i, wfc.retries)
    /\ batch_id' = wfc.batch_id
    /\ operation_status' = None
    /\ \E r \in GetOutcomes(wfc.batch_id, wfc.nfetch + 1) :
        LET n == wfc.nfetch + 1
            fetched == Append(log, Call("GET", wfc.batch_id, Pos))
        IN
        IF ~r.ok
        THEN /\ log' = Append(fetched, Sleep(sleep_secs, Pos))
             /\ wfc' = [wfc EXCEPT !.nfetch = n, !.failed_fetch = n, !.fetch_error = r.exc,
                                   !.i = @ + 1]
             /\ UNCHANGED <<batch, pc, result, wfm, failed_batches, outcomes>>
        ELSE /\ batch' = r.body
             /\ LET seen == [wfc EXCEPT !.nfetch = n,
                                        !.first_finished =
                                            IF @.seq = 0 /\ r.body.status = "finished"
                                            THEN r.body ELSE @]
                IN
                IF IsFinished(r.body)
                THEN /\ log' = fetched
                     /\ wfc' = seen
                     /\ IF HasErrors(r.body)
                        THEN Unwind(Raised(JobFailed(r.body, wfc.batch_id)), seen)
                        ELSE Unwind(Returned(r.body), seen)
                ELSE /\ log' = Append(fetched, Sleep(sleep_secs, Pos))
                     /\ wfc' = [seen EXCEPT !.i = @ + 1]
                     /\ UNCHANGED <<pc, result, wfm, failed_batches, outcomes>>
    /\ UNCHANGED <<op, arg, posted, created>>
    /\ UNCHANGED threads

\* one iteration of the for loop: get, test, and sleep or leave
WaitIterate ==
    /\ pc = "wait_for_complete"
    /\ LoopContinues(wfc.i, wfc.retries)
    /\ batch_id' = wfc.batch_id
    /\ operation_status' = None
    /\ \E r \in GetOutcomes(wfc.batch_id, wfc.nfetch + 1) :
        LET n == wfc.nfetch + 1
            fetched == Append(log, Call("GET", wfc.batch_id, Pos))
        IN
        IF ~r.ok
        THEN /\ log' = fetched
             /\ wfc' = [wfc EXCEPT !.nfetch = n, !.failed_fetch = n, !.fetch_error = r.exc]
             /\ UNCHANGED batch
             /\ Unwind(Raised(r.exc), wfc')
        ELSE /\ batch' = r.body
             /\ LET seen == [wfc EXCEPT !.nfetch = n,
                                        !.first_finished =
                                            IF @.seq = 0 /\ r.body.status = "finished"
                                            THEN r.body ELSE @]
                IN
                IF IsFinished(r.body)
                THEN /\ log' = fetched
                     /\ wfc' = seen
                     /\ IF HasErrors(r.body)
                        THEN Unwind(Raised(JobFailed(r.body, wfc.batch_id)), seen)
                        ELSE Unwind(Returned(r.body), seen)
                ELSE /\ log' = Append(fetched, Sleep(sleep_secs, Pos))
                     /\ wfc' = [seen EXCEPT !.i = @ + 1]
                     /\ UNCHANGED <<pc, result, wfm, failed_batches, outcomes>>
    /\ UNCHANGED <<op, arg, posted, created>>
    /\ UNCHANGED threads

\* the loop is over: return batch
WaitExhaust ==
    /\ pc = "wait_for_complete"
    /\ ~LoopContinues(wfc.i, wfc.retries)
    /\ Unwind(ExhaustedOutcome(batch), wfc)
    /\ UNCHANGED <<batch_id, operation_status, op, arg, log, posted, created, wfc, batch>>
    /\ UNCHANGED threads

\* ---------------------------------------------------------- wait_for_many
BatchIdLists == SeqsUpTo(Ids, MaxIds)

wait_for_many ==
    /\ pc = "idle"
    /\ \E batch_ids \in BatchIdLists, retries \in 0..MaxManyRetries :
        wfm' = [batch_ids |-> batch_ids, retries |-> retries, idx |-> 1]
    /\ failed_batches' = <<>>
    /\ outcomes' = <<>>
    /\ op' = "wait_for_many"
    /\ arg' = None
    /\ pc' = "wait_for_many"
    /\ result' = NoResult
    /\ log' = <<>>
    /\ posted' = <<>>
    /\ created' = <<>>
    /\ wfc' = NoWfc
    /\ batch' = Unbound
    /\ UNCHANGED <<batch_id, operation_status>>
    /\ UNCHANGED threads

\* a loop that hands each wait only what the earlier waits left of the budget
ManyNextSharedBudget ==
    /\ pc = "wait_for_many"
    /\ wfm.idx <= Len(wfm.batch_ids)
    /\ LET used == Cardinality({j \in 1..Len(log) : log[j].kind = "GET"})
       IN EnterWait(wfm.batch_ids[wfm.idx],
                    IF used < wfm.retries THEN wfm.retries - used ELSE 0)
    /\ UNCHANGED <<batch_id, operation_status, op, arg, result, log, posted, created, wfm,
                   failed_batches, outcomes>>
    /\ UNCHANGED threads

\* the next batch_id of the for loop: call wait_for_complete on it
ManyNext ==
    /\ pc = "wait_for_many"
    /\ wfm.idx <= Len(wfm.batch_ids)
    /\ EnterWait(wfm.batch_ids[wfm.idx], wfm.retries)
    /\ UNCHANGED <<batch_id, operation_status, op, arg, result, log, posted, created, wfm,
                   failed_batches, outcomes>>
    /\ UNCHANGED threads

\* an aggregate that counts the failed batches on both sides of the slash
AggregateErrorOfFailed(failed, batch_ids) ==
    Exception(<<FormatInt(Len(failed)), "/", FormatInt(Len(failed)), " batches failed:", "\n">>
              \o Join("\n", failed))

AggregateError(failed, batch_ids) ==
    Exception(<<FormatInt(Len(failed)), "/", FormatInt(Len(batch_ids)), " batches failed:", "\n">>
              \o Join("\n", failed))

\* the for loop is over: raise the aggregate or fall off the end
ManyFinish ==
    /\ pc = "wait_for_many"
    /\ wfm.idx > Len(wfm.batch_ids)
    /\ result' = IF Len(failed_batches) > 0
                 THEN Raised(AggregateError(failed_batches, wfm.batch_ids))
                 ELSE Returned(None)
    /\ pc' = "done"
    /\ UNCHANGED <<batch_id, operation_status, op, arg, log, posted, created, wfc, batch, wfm,
                   failed_batches, outcomes>>
    /\ UNCHANGED threads

\* ------------------------------------------------------------ create_sync
\* a wait on the id the object tracks instead of the id of the new batch
SyncWaitIdFromField(b) == batch_id

\* batch['id'], the argument of the wait_for_complete call of create_sync
SyncWaitId(b) == b.id

create_sync ==
    /\ pc = "idle"
    /\ op' = "create_sync"
    /\ \E operations \in OperationLists :
        LET data == [operations |-> operations]
            err == Validate(data) IN
        /\ arg' = data
        /\ IF err # NoError
           THEN /\ result' = Raised(err)
                /\ log' = <<>>
                /\ posted' = <<>>
                /\ created' = <<>>
                /\ pc' = "done"
                /\ wfc' = NoWfc
                /\ batch' = Unbound
           ELSE \E r \in PostOutcomes :
                /\ log' = <<Call("POST", "", 0)>>
                /\ posted' = <<data>>
                /\ created' = IF r.ok THEN <<r.body>> ELSE <<>>
                /\ IF r.ok
                   THEN /\ EnterWait(SyncWaitId(r.body), DefaultRetries)
                        /\ result' = NoResult
                   ELSE /\ result' = Raised(r.exc)
                        /\ pc' = "done"
                        /\ wfc' = NoWfc
                        /\ batch' = Unbound
    /\ wfm' = NoWfm
    /\ failed_batches' = <<>>
    /\ outcomes' = <<>>
    /\ UNCHANGED <<batch_id, operation_status>>
    /\ UNCHANGED threads

Return ==
    /\ pc = "done"
    /\ pc' = "idle"
    /\ op' = "none"
    /\ arg' = None
    /\ result' = NoResult
    /\ log' = <<>>
    /\ posted' = <<>>
    /\ created' = <<>>
    /\ wfc' = NoWfc
    /\ batch' = Unbound
    /\ wfm' = NoWfm
    /\ failed_batches' = <<>>
    /\ outcomes' = <<>>
    /\ UNCHANGED <<batch_id, operation_status>>
    /\ UNCHANGED threads

Next ==
    \/ create
    \/ create_sync
    \/ all
    \/ get
    \/ delete
    \/ wait_for_complete
    \/ WaitIterate
    \/ WaitExhaust
    \/ wait_for_many
    \/ ManyNext
    \/ ManyFinish
    \/ Return

Spec == Init /\ [][Next]_vars

\* ---------------------------------------- concurrent wait_for_complete calls
\* Two threads call wait_for_complete on one Batches object, each for its own
\* batch id. A thread is preempted between the statements of get: the two
\* assignments to the fields of the object and the transport call. What a
\* thread does to its own locals goes with its next access to the object.
\* The log has the writes of batch_id and the GETs, in the order they
\* happened, pos being the thread.
Threads == {1, 2}

seqvars == <<pc, op, arg, result, posted, wfc, batch, wfm, failed_batches, outcomes, created>>

Thread(id, retries) ==
    [pc |-> "loop", frame |-> Frame(id, retries), batch |-> Unbound, result |-> NoResult]

ConcInit ==
    /\ batch_id \in {None} \cup Ids
    /\ operation_status = None
    /\ pc = "idle"
    /\ op = "none"
    /\ arg = None
    /\ result = NoResult
    /\ log = <<>>
    /\ posted = <<>>
    /\ wfc = NoWfc
    /\ batch = Unbound
    /\ wfm = NoWfm
    /\ failed_batches = <<>>
    /\ outcomes = <<>>
    /\ created = <<>>
    /\ \E ids \in [Threads -> Ids], retries \in [Threads -> 0..MaxConcRetries] :
          /\ ids[1] # ids[2]
          /\ threads = [t \in Threads |-> Thread(ids[t], retries[t])]

\* a get that builds its path from the field of the object
FetchIdFromField(t) == batch_id

\* the batch_id parameter of get, from which line 106 builds the path
FetchId(t) == threads[t].frame.batch_id

\* the for loop goes on; get assigns self.batch_id
ConcAssignBatchId(t) ==
    /\ threads[t].pc = "loop"
    /\ LoopContinues(threads[t].frame.i, threads[t].frame.retries)
    /\ batch_id' = threads[t].frame.batch_id
    /\ log' = Append(log, Call("SET", threads[t].frame.batch_id, t))
    /\ threads' = [threads EXCEPT ![t].pc = "assigned"]
    /\ UNCHANGED operation_status
    /\ UNCHANGED seqvars

\* get assigns self.operation_status
ConcAssignStatus(t) ==
    /\ threads[t].pc = "assigned"
    /\ operation_status' = None
    /\ threads' = [threads EXCEPT ![t].pc = "fetch"]
    /\ UNCHANGED <<batch_id, log>>
    /\ UNCHANGED seqvars

\* get calls the transport; the rest of the iteration: test, and sleep or leave
ConcFetch(t) ==
    /\ threads[t].pc = "fetch"
    /\ \E r \in GetOutcomes(FetchId(t), threads[t].frame.nfetch + 1) :
        LET f == threads[t].frame
            n == f.nfetch + 1
        IN
        /\ log' = Append(log, Call("GET", FetchId(t), t))
        /\ IF ~r.ok
           THEN threads' = [threads EXCEPT
                    ![t].frame = [f EXCEPT !.nfetch = n, !.failed_fetch = n, !.fetch_error = r.exc],
                    ![t].result = Raised(r.exc),
                    ![t].pc = "done"]
           ELSE LET seen == [f EXCEPT !.nfetch = n,
                                      !.first_finished =
                                          IF @.seq = 0 /\ r.body.status = "finished"
                                          THEN r.body ELSE @]
                IN
                IF IsFinished(r.body)
                THEN threads' = [threads EXCEPT
                         ![t].frame = seen,
                         ![t].batch = r.body,
                         ![t].result = IF HasErrors(r.body)
                                       THEN Raised(JobFailed(r.body, f.batch_id))
                                       ELSE Returned(r.body),
                         ![t].pc = "done"]
                ELSE threads' = [threads EXCEPT
                         ![t].frame = [seen EXCEPT !.i = @ + 1],
                         ![t].batch = r.body,
                         ![t].pc = "loop"]
    /\ UNCHANGED <<batch_id, operation_status>>
    /\ UNCHANGED seqvars

\* the loop is over: return batch
ConcExhaust(t) ==
    /\ threads[t].pc = "loop"
    /\ ~LoopContinues(threads[t].frame.i, threads[t].frame.retries)
    /\ threads' = [threads EXCEPT ![t].result = ExhaustedOutcome(threads[t].batch),
                                  ![t].pc = "done"]
    /\ UNCHANGED <<batch_id, operation_status, log>>
    /\ UNCHANGED seqvars

ConcNext ==
    \/ \E t \in Threads : ConcAssignBatchId(t)
    \/ \E t \in Threads : ConcAssignStatus(t)
    \/ \E t \in Threads : ConcFetch(t)
    \/ \E t \in Threads : ConcExhaust(t)

SpecConc == ConcInit /\ [][ConcNext]_vars

\* ------------------------------------------------------------------------
\* Properties
\* ------------------------------------------------------------------------
NumKind(l, kinds) == Cardinality({j \in 1..Len(l) : l[j].kind \in kinds})
TransportCalls(l) == NumKind(l, {"GET", "POST", "DELETE"})
Gets(l) == NumKind(l, {"GET"})
EndsWithGet(l) == Len(l) > 0 /\ l[Len(l)].kind = "GET"
WaitOps == {"wait_for_complete", "create_sync"}

OperationViolates(o) ==
    \/ "method" \notin DOMAIN o
    \/ o.method \notin {"GET", "POST", "PUT", "PATCH", "DELETE"}
    \/ "path" \notin DOMAIN o
RequestViolates(data) ==
    \/ "operations" \notin DOMAIN data
    \/ \E j \in 1..Len(data.operations) : OperationViolates(data.operations[j])

\* C1: a request that violates validation (no 'operations', or an operation
\* without 'method', with a method outside the five allowed, or without
\* 'path') makes create raise with no transport call made; a POST is in the
\* log only if no operation of the request violates a rule.
C1_InvalidRequestNeverSent ==
    op \in {"create", "create_sync"} =>
        /\ RequestViolates(arg) =>
              /\ pc = "done"
              /\ result.kind = "raise"
              /\ result.exc.type \in {"KeyError", "ValueError"}
              /\ TransportCalls(log) = 0
        /\ NumKind(log, {"POST"}) > 0 => ~RequestViolates(arg)

\* C1 witness: create rejected a request whose first operation is valid and
\* whose second is not.
C1_Witness ==
    /\ pc = "done" /\ op = "create"
    /\ "operations" \in DOMAIN arg
    /\ Len(arg.operations) = 2
    /\ ~OperationViolates(arg.operations[1])
    /\ OperationViolates(arg.operations[2])
    /\ result.kind = "raise"
    /\ log = <<>>

\* C2: when the first snapshot with status finished is the k-th fetched and
\* has no errored operations, the wait is over, has returned exactly that
\* snapshot, has made exactly k fetches, and the k-th GET is the last event
\* (no fetch and no sleep after it).
C2_CleanFinishReturnsAtOnce ==
    (/\ op \in WaitOps
     /\ wfc.retries >= 1
     /\ wfc.first_finished.seq > 0
     /\ wfc.first_finished.errored_operations = 0) =>
        /\ pc = "done"
        /\ result = Returned(wfc.first_finished)
        /\ wfc.nfetch = wfc.first_finished.seq
        /\ Gets(log) = wfc.first_finished.seq
        /\ EndsWithGet(log)

\* C2 witness: a wait with budget 2 saw an unfinished snapshot, then a clean
\* finished one.
C2_Witness ==
    /\ pc = "done" /\ op = "wait_for_complete"
    /\ wfc.retries = 2
    /\ wfc.first_finished.seq = 2
    /\ wfc.first_finished.errored_operations = 0
    /\ result.kind = "return"

\* C3: when the first snapshot with status finished is the k-th fetched and
\* has errored operations, the wait is over and has raised an Exception whose
\* message carries that snapshot's errored_operations, total_operations and
\* response_body_url and the job id, after exactly k fetches, the k-th GET
\* being the last event.
C3_FailedJobRaisesAtOnce ==
    (/\ op \in WaitOps
     /\ wfc.first_finished.seq > 0
     /\ wfc.first_finished.errored_operations > 0) =>
        /\ pc = "done"
        /\ result.kind = "raise"
        /\ result.exc.type = "Exception"
        /\ Len(result.exc.msg) = 7
        /\ result.exc.msg[1] = FormatInt(wfc.first_finished.errored_operations)
        /\ result.exc.msg[3] = FormatInt(wfc.first_finished.total_operations)
        /\ result.exc.msg[5] = wfc.batch_id
        /\ result.exc.msg[7] = wfc.first_finished.response_body_url
        /\ wfc.nfetch = wfc.first_finished.seq
        /\ Gets(log) = wfc.first_finished.seq
        /\ EndsWithGet(log)

\* C3 witness: with budget 2 the first fetch, a finished snapshot with 2 of 3
\* operations errored, ended the wait.
C3_Witness ==
    /\ pc = "done" /\ op = "wait_for_complete"
    /\ wfc.retries = 2
    /\ wfc.first_finished.seq = 1
    /\ wfc.first_finished.errored_operations = 2
    /\ wfc.first_finished.total_operations = 3
    /\ result.kind = "raise"

\* C4: a finished wait with budget N >= 1 that was answered every time and
\* never with status finished has made exactly N fetches and has returned,
\* not raised, the N-th snapshot fetched.
C4_ExhaustedReturnsLastSnapshot ==
    (/\ pc = "done"
     /\ op \in WaitOps
     /\ wfc.retries >= 1
     /\ wfc.first_finished.seq = 0
     /\ wfc.failed_fetch = 0) =>
        /\ wfc.nfetch = wfc.retries
        /\ Gets(log) = wfc.retries
        /\ result.kind = "return"
        /\ result.value.seq = wfc.retries
        /\ result.value.id = wfc.batch_id
        /\ result.value.status # "finished"

\* C4 witness: budget 2, two unfinished snapshots of different status, the
\* second one returned.
C4_Witness ==
    /\ pc = "done" /\ op = "wait_for_complete"
    /\ wfc.retries = 2
    /\ wfc.nfetch = 2
    /\ wfc.first_finished.seq = 0
    /\ wfc.failed_fetch = 0
    /\ result.kind = "return"
    /\ result.value.status = "started"

\* C5: with no transport failure, for every budget N >= 0, wait_for_complete
\* raises only if it fetched a snapshot with status finished and errored
\* operations.
C5_RaisesOnlyOnFailedJob ==
    (/\ pc = "done"
     /\ op = "wait_for_complete"
     /\ wfc.failed_fetch = 0
     /\ result.kind = "raise") =>
        /\ wfc.first_finished.seq > 0
        /\ wfc.first_finished.errored_operations > 0

\* C6: in wait_for_many with retries >= 1 the events of the id at position p
\* all come before those of position p+1, every GET asks for the id of its
\* position, and every position already left (all of them once the call is
\* over) has at least one GET, whatever the earlier waits did.
C6_EveryIdWaitedInOrder ==
    (op = "wait_for_many" /\ wfm.retries >= 1) =>
        /\ \A a, b \in 1..Len(log) : a < b => log[a].pos <= log[b].pos
        /\ \A a \in 1..Len(log) :
              log[a].kind = "GET" =>
                  /\ log[a].pos \in 1..Len(wfm.batch_ids)
                  /\ log[a].id = wfm.batch_ids[log[a].pos]
        /\ \A p \in 1..Len(wfm.batch_ids) :
              (p < wfm.idx \/ pc = "done") =>
                  \E a \in 1..Len(log) : log[a].kind = "GET" /\ log[a].pos = p

\* C6 witness: three ids, the first two finished with errors, the third was
\* still fetched.
C6_Witness ==
    /\ pc = "done" /\ op = "wait_for_many"
    /\ wfm.retries >= 1
    /\ Len(wfm.batch_ids) = 3
    /\ Len(outcomes) = 3
    /\ outcomes[1].job = "finished_errors"
    /\ outcomes[2].job = "finished_errors"
    /\ \E a \in 1..Len(log) : log[a].kind = "GET" /\ log[a].pos = 3

\* the lines of a text: its tokens between the separators
RECURSIVE Split(_, _)
Split(tokens, sep) ==
    IF \A j \in 1..Len(tokens) : tokens[j] # sep THEN <<tokens>>
    ELSE LET cut == CHOOSE j \in 1..Len(tokens) :
                        tokens[j] = sep /\ \A h \in 1..(j - 1) : tokens[h] # sep
         IN <<SubSeq(tokens, 1, cut - 1)>> \o Split(SubSeq(tokens, cut + 1, Len(tokens)), sep)

IsRaise(o) == o.kind = "raise"

\* C7: once wait_for_many is over all n ids have been waited on, and it has
\* raised iff some wait raised; the message then has the line 'k/n batches
\* failed:' followed by exactly the k descriptions of the waits that raised,
\* one per line, in the order of batch_ids.
C7_AggregateListsExactlyTheFailures ==
    (pc = "done" /\ op = "wait_for_many") =>
        LET n == Len(wfm.batch_ids)
            failing == SelectSeq(outcomes, IsRaise)
            k == Len(failing)
        IN /\ Len(outcomes) = n
           /\ (result.kind = "raise") <=> (k > 0)
           /\ k = 0 => result = Returned(None)
           /\ k > 0 =>
                LET lines == Split(result.exc.msg, "\n") IN
                /\ Len(lines) = k + 1
                /\ lines[1] = <<FormatInt(k), "/", FormatInt(n), " batches failed:">>
                /\ \A j \in 1..k : lines[j + 1] = StrOfException(failing[j].exc)

\* C7 witness: of three ids the first and the third failed and the second
\* did not; the aggregate says 2/3.
C7_Witness ==
    /\ pc = "done" /\ op = "wait_for_many"
    /\ Len(outcomes) = 3
    /\ outcomes[1].kind = "raise"
    /\ outcomes[2].kind = "return"
    /\ outcomes[3].kind = "raise"
    /\ result.kind = "raise"
    /\ SubSeq(result.exc.msg, 1, 3) = <<"2", "/", "3">>

\* C8: wait_for_many with retries >= 1 over jobs that each either finished
\* without errored operations or were still unfinished when the budget was
\* spent, no fetch having failed, returns normally.
C8_ExhaustedIsNotAFailure ==
    (/\ pc = "done"
     /\ op = "wait_for_many"
     /\ wfm.retries >= 1
     /\ \A p \in 1..Len(outcomes) : outcomes[p].job \in {"finished_ok", "not_finished"}) =>
        /\ Len(outcomes) = Len(wfm.batch_ids)
        /\ result = Returned(None)

\* C8 witness: one job ran out of budget, another finished cleanly, and the
\* call returned.
C8_Witness ==
    /\ pc = "done" /\ op = "wait_for_many"
    /\ wfm.retries >= 1
    /\ Len(outcomes) = 2
    /\ outcomes[1].job = "not_finished"
    /\ outcomes[2].job = "finished_ok"
    /\ result.kind = "return"

\* C9: when a fetch of wait_for_complete fails with a transport error, the
\* wait is over, has raised that very error, and the failed GET is its last
\* event: no retry, no sleep, no further fetch.
C9_TransportErrorPropagates ==
    (op \in WaitOps /\ wfc.failed_fetch > 0) =>
        /\ pc = "done"
        /\ result = Raised(wfc.fetch_error)
        /\ wfc.nfetch = wfc.failed_fetch
        /\ Gets(log) = wfc.failed_fetch
        /\ EndsWithGet(log)

\* C9 witness: the first fetch of a wait with budget 2 failed and the wait
\* raised with one fetch made.
C9_Witness ==
    /\ pc = "done" /\ op = "wait_for_complete"
    /\ wfc.retries = 2
    /\ wfc.failed_fetch = 1
    /\ result.kind = "raise"
    /\ result.exc.type = "MailChimpError"

\* C10: every request handed to POST contains at least one operation.
C10_NoEmptySubmission ==
    \A j \in 1..Len(posted) : Len(posted[j].operations) >= 1

Sleeps(l) == NumKind(l, {"SLEEP"})

\* C11: a finished wait with budget N >= 1 whose fetches were all answered
\* has slept only between two fetches: every sleep has length 3, a wait that
\* saw status finished at fetch k has slept k-1 times, and a wait that spent
\* its budget has slept N-1 times, its last event being the N-th GET.
C11_SleepsOnlyBetweenFetches ==
    (/\ pc = "done"
     /\ op = "wait_for_complete"
     /\ wfc.retries >= 1
     /\ wfc.failed_fetch = 0) =>
        /\ \A j \in 1..Len(log) : log[j].kind = "SLEEP" => log[j].secs = 3
        /\ IF wfc.first_finished.seq > 0
           THEN Sleeps(log) = wfc.first_finished.seq - 1
           ELSE Sleeps(log) = wfc.retries - 1 /\ EndsWithGet(log)

\* C12: in wait_for_many an exception of a wait (a transport error of its
\* fetch, or any other) does not leave the call: failed_batches holds the
\* str() of every exception raised so far, in order, the call has no result
\* until every id has been waited on, and the only exception the caller sees
\* is the aggregate, which has the description of the transport error as one
\* of its lines.
C12_WaitErrorsAreCollected ==
    op = "wait_for_many" =>
        LET failing == SelectSeq(outcomes, IsRaise) IN
        /\ \A p \in 1..Len(outcomes) :
              outcomes[p].job = "transport_failed" =>
                  outcomes[p].kind = "raise" /\ outcomes[p].exc \in TransportErrors
        /\ Len(failed_batches) = Len(failing)
        /\ \A j \in 1..Len(failing) : failed_batches[j] = StrOfException(failing[j].exc)
        /\ pc # "done" => result = NoResult
        /\ pc = "done" =>
              /\ Len(outcomes) = Len(wfm.batch_ids)
              /\ result.kind = "raise" =>
                    /\ result.exc.type = "Exception"
                    /\ result.exc.msg[4] = " batches failed:"
                    /\ \A j \in 1..Len(failing) :
                          \E h \in 2..(Len(failing) + 1) :
                              Split(result.exc.msg, "\n")[h] = StrOfException(failing[j].exc)

\* C12 witness: the fetch of the first of two ids failed in the transport,
\* the second id was waited on and returned, and the aggregate was raised.
C12_Witness ==
    /\ pc = "done" /\ op = "wait_for_many"
    /\ Len(outcomes) = 2
    /\ outcomes[1].job = "transport_failed"
    /\ outcomes[2].kind = "return"
    /\ result.kind = "raise"
    /\ result.exc.type = "Exception"

GetsAt(l, p) == Cardinality({j \in 1..Len(l) : l[j].kind = "GET" /\ l[j].pos = p})

\* C13: the polling is bounded. A wait with budget N never has more than N
\* fetches behind it and is over once it has N; wait_for_many over n ids
\* never has more than N*n, at most N of them for any one id, and an id whose
\* job was answered every time and never seen finished got exactly N fetches,
\* whatever the ids before it used.
C13_FetchesWithinBudget ==
    /\ op \in WaitOps =>
          /\ wfc.nfetch <= wfc.retries
          /\ Gets(log) = wfc.nfetch
          /\ (pc = "wait_for_complete" /\ wfc.nfetch = wfc.retries) => wfc.i = wfc.retries
    /\ op = "wait_for_many" =>
          /\ Gets(log) <= wfm.retries * Len(wfm.batch_ids)
          /\ wfc.nfetch <= wfm.retries
          /\ \A p \in 1..Len(wfm.batch_ids) : GetsAt(log, p) <= wfm.retries
          /\ \A p \in 1..Len(outcomes) :
                outcomes[p].job = "not_finished" => GetsAt(log, p) = wfm.retries
          /\ pc = "done" => Len(outcomes) = Len(wfm.batch_ids)

\* C13 witness: three jobs that never finished, each polled with the whole
\* budget, N*n fetches in all.
C13_Witness ==
    /\ pc = "done" /\ op = "wait_for_many"
    /\ wfm.retries = 1
    /\ Len(wfm.batch_ids) = 3
    /\ \A p \in 1..3 : outcomes[p].job = "not_finished" /\ GetsAt(log, p) = 1
    /\ Gets(log) = 3

\* C14: when create rejects a request that has 'operations', the error is
\* the one of the first operation, in sequence order, that violates a rule,
\* and of the first rule that operation violates: missing 'method' (KeyError),
\* then a method outside the five allowed (ValueError, whose message ends
\* with the offending value), then missing 'path' (KeyError).
C14_FirstViolationIsReported ==
    (/\ pc = "done"
     /\ op \in {"create", "create_sync"}
     /\ "operations" \in DOMAIN arg
     /\ RequestViolates(arg)) =>
        LET ops == arg.operations
            first == CHOOSE j \in 1..Len(ops) :
                        OperationViolates(ops[j])
                        /\ \A h \in 1..(j - 1) : ~OperationViolates(ops[h])
            o == ops[first]
        IN /\ result.kind = "raise"
           /\ IF "method" \notin DOMAIN o
              THEN /\ result.exc.type = "KeyError"
                   /\ result.exc.msg = <<"The batch operation must have a method">>
              ELSE IF o.method \notin {"GET", "POST", "PUT", "PATCH", "DELETE"}
              THEN /\ result.exc.type = "ValueError"
                   /\ result.exc.msg[Len(result.exc.msg)] = o.method
              ELSE /\ result.exc.type = "KeyError"
                   /\ result.exc.msg = <<"The batch operation must have a path">>

\* C14 witness: the first operation has the method HEAD and no path, the
\* second has no method; the error names HEAD.
C14_Witness ==
    /\ pc = "done" /\ op = "create"
    /\ "operations" \in DOMAIN arg
    /\ Len(arg.operations) = 2
    /\ arg.operations[1] = [method |-> "HEAD"]
    /\ arg.operations[2] = [path |-> "/lists"]
    /\ result.kind = "raise"
    /\ result.exc.type = "ValueError"
    /\ result.exc.msg[2] = "HEAD"

\* C15: create_sync makes at most one POST and no DELETE; when create fails
\* (validation or transport) it raises with no GET made; otherwise the POST
\* is the first event, every GET comes after it and asks for the id of the
\* POST's response, the wait runs with the default budget of 20, and what is
\* returned is a snapshot fetched by that wait.
C15_SyncPollsTheCreatedBatch ==
    op = "create_sync" =>
        /\ NumKind(log, {"POST"}) <= 1
        /\ NumKind(log, {"DELETE"}) = 0
        /\ created = <<>> =>
              /\ pc = "done"
              /\ result.kind = "raise"
              /\ Gets(log) = 0
        /\ created # <<>> =>
              /\ Len(created) = 1
              /\ NumKind(log, {"POST"}) = 1
              /\ log[1].kind = "POST"
              /\ posted = <<arg>>
              /\ \A j \in 1..Len(log) :
                    log[j].kind = "GET" => j > 1 /\ log[j].id = created[1].id
              /\ wfc.batch_id = created[1].id
              /\ wfc.retries = 20
              /\ Gets(log) <= 20
              /\ (pc = "done" /\ result.kind = "return") =>
                    /\ result.value.id = created[1].id
                    /\ result.value.seq = Gets(log)
                    /\ result.value.seq >= 1

\* C15 witness: the POST answered with B, and B was polled 20 times without
\* finishing.
C15_Witness ==
    /\ pc = "done" /\ op = "create_sync"
    /\ created # <<>>
    /\ created[1].id = "B"
    /\ Gets(log) = 20
    /\ GetsAt(log, 0) = 20
    /\ \A j \in 2..Len(log) : log[j].kind = "GET" => log[j].id = "B"
    /\ result.kind = "return"

\* C16: get, wait_for_complete and wait_for_many are reads: all they send is
\* GETs, each for an id they were given, and they hand nothing to POST; a
\* POST is made by create only (create_sync calling it) and a DELETE by
\* delete only, so the service receives no state-changing request from any
\* get or wait.
C16_ReadsOnlyGet ==
    /\ op \in {"get", "wait_for_complete", "wait_for_many"} =>
          /\ posted = <<>>
          /\ created = <<>>
          /\ \A j \in 1..Len(log) :
                /\ log[j].kind \in {"GET", "SLEEP"}
                /\ log[j].kind = "GET" =>
                      CASE op = "get" -> log[j].id = arg
                        [] op = "wait_for_complete" -> log[j].id = wfc.batch_id
                        [] op = "wait_for_many" ->
                              \E p \in 1..Len(wfm.batch_ids) : log[j].id = wfm.batch_ids[p]
    /\ NumKind(log, {"POST"}) > 0 => op \in {"create", "create_sync"}
    /\ NumKind(log, {"DELETE"}) > 0 => op = "delete"
    /\ op = "delete" => log = <<Call("DELETE", arg, 0)>>

\* C16 witness: a wait_for_many over three ids is over with one GET for each
\* and nothing else sent.
C16_Witness ==
    /\ pc = "done" /\ op = "wait_for_many"
    /\ Len(wfm.batch_ids) = 3
    /\ wfm.retries = 1
    /\ Gets(log) = 3
    /\ TransportCalls(log) = 3

\* the events a step adds to the log (an invocation starts a fresh log)
NewEvents == IF pc = "idle" THEN log' ELSE SubSeq(log', Len(log) + 1, Len(log'))
IsTracked(e) == e.kind \in {"GET", "DELETE"} /\ e.id # ""

\* C17: the tracking fields start as None; operation_status stays None; a
\* step that sends a GET or DELETE for a batch id leaves that id (the last
\* one it sent) in batch_id whether or not the call succeeded, a call of all
\* leaves None, and every other step, create included, leaves batch_id as it
\* was.
C17_TrackingFields ==
    /\ batch_id = None /\ operation_status = None
    /\ [][ /\ operation_status' = None
           /\ LET tracked == SelectSeq(NewEvents, IsTracked) IN
              IF pc = "idle" /\ op' = "all" THEN batch_id' = None
              ELSE IF tracked # <<>> THEN batch_id' = tracked[Len(tracked)].id
              ELSE batch_id' = batch_id ]_vars

\* C17 witness: a delete of B failed in the transport and B is the tracked id.
C17_Witness ==
    /\ pc = "done" /\ op = "delete"
    /\ arg = "B"
    /\ result.kind = "raise"
    /\ log = <<Call("DELETE", "B", 0)>>
    /\ batch_id = "B"
    /\ operation_status = None

AllDone == \A t \in Threads : threads[t].pc = "done"
LastOf(l, kind) == l[CHOOSE j \in 1..Len(l) :
                        l[j].kind = kind /\ \A h \in (j + 1)..Len(l) : l[h].kind # kind]

\* what a finished wait of thread t must have given, from the answers to its
\* own fetches alone
OwnOutcome(t) ==
    LET f == threads[t].frame
        res == threads[t].result
    IN
    IF f.failed_fetch > 0
    THEN res = Raised(f.fetch_error) /\ f.nfetch = f.failed_fetch
    ELSE IF f.first_finished.seq > 0
    THEN /\ f.nfetch = f.first_finished.seq
         /\ f.first_finished.id = f.batch_id
         /\ IF f.first_finished.errored_operations > 0
            THEN /\ res.kind = "raise"
                 /\ res.exc.type = "Exception"
                 /\ res.exc.msg[1] = FormatInt(f.first_finished.errored_operations)
                 /\ res.exc.msg[3] = FormatInt(f.first_finished.total_operations)
                 /\ res.exc.msg[5] = f.batch_id
                 /\ res.exc.msg[7] = f.first_finished.response_body_url
            ELSE res = Returned(f.first_finished)
    ELSE /\ f.nfetch = f.retries
         /\ IF f.retries = 0
            THEN res = Raised(UnboundLocalError)
            ELSE /\ res.kind = "return"
                 /\ res.value.seq = f.retries
                 /\ res.value.id = f.batch_id
                 /\ res.value.status # "finished"

\* the two waits do not depend on each other: every GET asks for the id of
\* the thread that sends it, each thread stays within its own budget, and a
\* finished wait has the outcome its own answers determine
WaitsIndependent ==
    /\ operation_status = None
    /\ \A j \in 1..Len(log) :
          log[j].kind = "GET" => log[j].id = threads[log[j].pos].frame.batch_id
    /\ \A t \in Threads :
          /\ GetsAt(log, t) = threads[t].frame.nfetch
          /\ threads[t].frame.nfetch <= threads[t].frame.retries
          /\ threads[t].pc = "done" => OwnOutcome(t)

\* C18 as stated: the two interleaved waits do not depend on each other, and
\* once both are over batch_id is the id of the fetch (GET) that ran last.
C18_LastFetchWins ==
    /\ WaitsIndependent
    /\ (AllDone /\ Gets(log) > 0) => batch_id = LastOf(log, "GET").id

\* C18 amended: the two interleaved waits do not depend on each other;
\* batch_id is the id of the wait whose get assigned it last (line 104), and
\* a step that is not such an assignment leaves it as it was.
C18_LastAssignmentWins ==
    /\ [](/\ WaitsIndependent
          /\ NumKind(log, {"SET"}) > 0 => batch_id = LastOf(log, "SET").id)
    /\ [][ NumKind(log', {"SET"}) = NumKind(log, {"SET"}) => batch_id' = batch_id ]_vars

\* C18 witness: both waits are over, each has fetched, and the GET that ran
\* last is not the one of the wait that assigned batch_id last.
C18_Witness ==
    /\ AllDone
    /\ \A t \in Threads : threads[t].frame.nfetch >= 1
    /\ LastOf(log, "GET").id # batch_id
    /\ LastOf(log, "SET").id = batch_id
    /\ threads[1].result.kind = "return"
    /\ threads[2].result.kind = "raise"

====
